---- MODULE Spec2Model ----
(***************************************************************************)
(* A model of unx-clipboard: the entry store (core.py, class Database),    *)
(* the clipboard change detector (core.py, class ClipboardMonitor), the    *)
(* application handlers that connect them (main.py, class ClipboardApp),   *)
(* the folder sync (services.py, class LocalFolderProvider) and backup and *)
(* restore (services.py, class ImportExport).                              *)
(*                                                                         *)
(* Time is the wall clock in whole seconds.  Row timestamps are clock      *)
(* readings.  Contents are strings: a text, or the relative path of a PNG  *)
(* under the data root.  The data root's images directory is the set      *)
(* files of (relative path, picture) pairs, one per path.                  *)
(***************************************************************************)
EXTENDS Integers, Sequences, FiniteSets, TLC

VARIABLES
    now,                \* datetime.now(), in seconds
    ms_token,           \* the last int(time.time() * 1000) used in a file name
    rows,               \* table clipboard: a set of rows
    files,              \* USER_DATA_DIR/images: the files, each a path and a picture
    clip_text,          \* the text on the system clipboard ("" = none)
    clip_image,         \* the picture on the system clipboard (NullImage = none)
    last_text,          \* ClipboardMonitor._last_text
    last_image_hash,    \* ClipboardMonitor._last_image_hash
    ignore_next_change, \* the attribute main.py sets on the monitor
    log_images,         \* config['history']['log_images']
    retention_days,     \* config['history']['retention_days']
    clip_src,           \* who put the clipboard's content there (history)
    last,               \* the last handler that ran and what it did (history)
    sync_config,        \* config['sync']: the backend name and the profiles
    sync_thread,        \* the sync invocation each thread is running
    temp_zip,           \* the file at BaseSyncProvider.temp_zip_path
    cleanup_pending,    \* a _cleanup_temp_files timer is scheduled
    sync_dir,           \* the snapshot files in the profile's directory
    last_sync_timestamp,\* last_sync_info.json (-1 = no file)
    sync_complete,      \* the sync_complete signals emitted so far
    sync_log,           \* the sync invocations made so far (history)
    listing,            \* the last paged listing of the table (history)
    db_table,           \* the file at DB_PATH holds the clipboard table
    db_file,            \* the main database file: the rows in each of its pages
    backup,             \* the archive written by export_full_backup
    monitor_thread,     \* ClipboardMonitor.thread: where the thread of _run is
    stopping,           \* ClipboardMonitor._stopping ("unset" = no such attribute)
    clearing,           \* a clear_history call in progress: its position and locals
    current_page,       \* AppGUI.current_page
    total_pages,        \* AppGUI.total_pages
    search_text         \* the text of AppGUI.search_input

appVars == <<now, ms_token, rows, files, clip_text, clip_image, last_text,
             last_image_hash, ignore_next_change, log_images, retention_days,
             clip_src, last>>

syncVars == <<sync_config, sync_thread, temp_zip, cleanup_pending, sync_dir,
              last_sync_timestamp, sync_complete, sync_log>>

viewVars == <<listing>>

backupVars == <<db_table, db_file, backup>>

monitorVars == <<monitor_thread, stopping>>

clearVars == <<clearing>>

pageVars == <<current_page, total_pages, search_text>>

\* What the handlers of the application, and the steps of a sync, leave alone.
outsideApp == <<syncVars, viewVars, backupVars, monitorVars, clearVars>>
outsideSync == <<appVars, viewVars, backupVars, monitorVars, clearVars, pageVars>>

----------------------------------------------------------------------------
(* Bounds of the model. *)
MaxId == 2
MaxCaptures == 2
MaxSecs == 2
MaxDays == 1
MaxTicks == 3
MaxSyncs == 3
MaxPerPage == 2
items_per_page == 1

(* Program constants. *)
DedupWindow == 2
PollInterval == 1
SecondsPerDay == 86400
RetentionCallArgs == 2
RetentionParams == 1
backup_retention_count == 5

Texts == {"a", "b"}
Pictures == {"p"}
NullImage == "null"
None == "None"
RetentionChoices == {0, 1}

----------------------------------------------------------------------------
(* Helpers. *)
MaxOf(S) == CHOOSE x \in S : \A y \in S : y <= x

Paths(fs) == {f.path : f \in fs}

\* os.remove of every path of S that exists.
Unlink(fs, S) == {f \in fs : f.path \notin S}

\* Writing a file creates it or replaces what the path held.
WriteFile(fs, path, image) ==
    {f \in fs : f.path # path} \cup {[path |-> path, image |-> image]}

\* QImage(full_path): the picture of the file, a null image when it is missing.
LoadImage(fs, path) ==
    IF path \in Paths(fs)
    THEN (CHOOSE f \in fs : f.path = path).image
    ELSE NullImage

Event(content, type) == [content |-> content, type |-> type]

\* What the last step did, when it was a handler the properties observe: its
\* name, its argument, what held before it (pre), how many rows it added or
\* removed (n) and the new_entry events it emitted.  Idle after any other step.
Did(op, arg, pre, n, events) ==
    [op |-> op, arg |-> arg, pre |-> pre, n |-> n, events |-> events]

Idle == Did("", "", "", 0, <<>>)

\* The origin of the clipboard's content: who wrote it (by), whether the
\* detector has sampled it since (sampled), and whether the user copied the
\* same content again after the detector had sampled it (recopied).
Src(by, sampled, recopied) == [by |-> by, sampled |-> sampled, recopied |-> recopied]

----------------------------------------------------------------------------
(* class Database *)

\* INTEGER PRIMARY KEY without AUTOINCREMENT: the new rowid is one more than
\* the largest rowid in the table.
NextId(rs) == IF rs = {} THEN 1 ELSE MaxOf({r.id : r \in rs}) + 1

NewRow(rs, content, type, t, snippet) ==
    [id |-> NextId(rs), content |-> content, type |-> type, timestamp |-> t,
     pinned |-> 0, is_snippet |-> snippet]

\* A variant whose cutoff is inclusive.
RecentDuplicate_inclusive(rs, content, type, t) ==
    \E r \in rs : r.content = content /\ r.type = type
                  /\ r.timestamp >= t - DedupWindow

\* The SELECT of add_entry: a row of the same content and type newer than the cutoff.
RecentDuplicate(rs, content, type, t) ==
    \E r \in rs : r.content = content /\ r.type = type
                  /\ r.timestamp > t - DedupWindow

add_entry(rs, content, type, t) ==
    IF RecentDuplicate(rs, content, type, t)
    THEN rs
    ELSE rs \cup {NewRow(rs, content, type, t, 0)}

add_manual_snippet_deduplicated(rs, content, t) ==
    IF RecentDuplicate(rs, content, "text", t)
    THEN rs
    ELSE rs \cup {NewRow(rs, content, "text", t, 1)}

add_manual_snippet(rs, content, t) == rs \cup {NewRow(rs, content, "text", t, 1)}

toggle_pin(rs, id) ==
    {IF r.id = id THEN [r EXCEPT !.pinned = 1 - r.pinned] ELSE r : r \in rs}

\* toggle_pin subscripts cursor.fetchone(), which is None when no row has
\* the id: a TypeError, raised before the UPDATE.
toggle_pin_raises(rs, id) == ~(\E r \in rs : r.id = id)

set_as_snippet(rs, id) ==
    {IF r.id = id THEN [r EXCEPT !.is_snippet = 1] ELSE r : r \in rs}

remove_from_snippet(rs, id) ==
    {IF r.id = id THEN [r EXCEPT !.is_snippet = 0] ELSE r : r \in rs}

delete_entry(rs, id) == {r \in rs : r.id # id}

\* content LIKE '%search_text%', for the search texts of the model: a text
\* that is part of no other content.
SearchTexts == {"", "b"}

Like(content, search) == content = search

\* get_total_entry_count: SELECT COUNT(*), WHERE content LIKE ? when a
\* search text is given.
get_total_entry_count(rs, search) ==
    Cardinality({r \in rs : search = "" \/ Like(r.content, search)})

\* math.ceil(n / per_page)
PageCount(n, per_page) == (n + per_page - 1) \div per_page

\* ORDER BY timestamp DESC: the orders of the table the clause allows.  It
\* names no second key, so rows of equal timestamp come in any order.
Ordered(rs) ==
    {s \in [1 .. Cardinality(rs) -> rs] :
        \A i, j \in 1 .. Cardinality(rs) :
            i < j => s[i] # s[j] /\ s[i].timestamp >= s[j].timestamp}

\* LIMIT ? OFFSET ? on an ordered result.
Limit(s, limit, offset) ==
    SubSeq(s, offset + 1, IF offset + limit <= Len(s) THEN offset + limit ELSE Len(s))

\* get_all_entries with the default search_text: the results the query can
\* give for one page, each a sequence of rows.
get_all_entries(rs, page, per_page) ==
    {Limit(s, per_page, (page - 1) * per_page) : s \in Ordered(rs)}

\* The main database file holds the table clipboard in one page and the
\* index idx_content in another.  A commit appends both pages to the WAL;
\* a checkpoint copies them into the main file.  A page is the set of rows
\* it covers.
Pages(table, index) == [table |-> table, index |-> index]

\* A variant that leaves the main database file as it was.
wal_checkpoint_skipped(rs, file) == file

\* PRAGMA wal_checkpoint(FULL) on the only connection: the main database
\* file afterwards, given the table (rs) and the file before.
wal_checkpoint(rs, file) == Pages(rs, rs)

\* The rows a connection finds in a database file with an empty WAL.
RowsOf(file) == file.table

\* A .unxbackup archive: whether the file is a readable archive (made), and
\* its members: the database file (has it the table, its pages) and the
\* files of the images directory; and the table it was exported from (of,
\* history).
Backup(made, table, db, images, of) ==
    [made |-> made, table |-> table, db |-> db, images |-> images, of |-> of]

NoBackup == Backup(FALSE, FALSE, Pages({}, {}), {}, {})

\* A paged listing: the page size, the count, the pages in order and the
\* table they were read from.
Listing(per_page, count, pages, of) ==
    [per_page |-> per_page, count |-> count, pages |-> pages, of |-> of]

NoListing == Listing(0, 0, <<>>, {})

\* A variant whose DELETE forgets the snippet flag.
apply_retention_policy_no_snippet(rs, days, t) ==
    IF days > 0
    THEN {r \in rs : ~(r.pinned = 0 /\ r.timestamp < t - days * SecondsPerDay)}
    ELSE rs

\* A variant that deletes one expired row per call, the one of the least id.
apply_retention_policy_oldest_only(rs, days, t) ==
    LET expired == {r \in rs : r.pinned = 0 /\ r.is_snippet = 0
                                /\ r.timestamp < t - days * SecondsPerDay}
    IN  IF days > 0 /\ expired # {}
        THEN rs \ {CHOOSE r \in expired : \A x \in expired : r.id <= x.id}
        ELSE rs

apply_retention_policy(rs, days, t) ==
    IF days > 0
    THEN {r \in rs : ~(r.pinned = 0 /\ r.is_snippet = 0
                       /\ r.timestamp < t - days * SecondsPerDay)}
    ELSE rs

\* clear_history: the paths read by its SELECT, the rows left by its DELETE.
ClearedImagePaths(rs) ==
    {r.content : r \in {x \in rs : x.type = "image" /\ x.pinned = 0 /\ x.is_snippet = 0}}

\* A variant whose DELETE forgets the snippet flag.
ClearedRows_no_snippet(rs) == {r \in rs : ~(r.pinned = 0)}

ClearedRows(rs) == {r \in rs : ~(r.pinned = 0 /\ r.is_snippet = 0)}

----------------------------------------------------------------------------
(* class ClipboardMonitor *)

\* _get_qimage_hash: None for a null image, else the hash of its PNG bytes.
GetQImageHash(image) == IF image = NullImage THEN None ELSE "hash_" \o image

ImagePath(prefix, token) == "images/" \o prefix \o ToString(token) \o ".png"

----------------------------------------------------------------------------
(* services.py: the folder sync *)

Threads == {"t1", "t2"}

Profile(name, path_ok, retention) ==
    [name |-> name, path_ok |-> path_ok, retention |-> retention]

\* config['sync'] as load_config finds it: the backend name and the profiles.
SyncConfig(backend, profiles) == [backend |-> backend, profiles |-> profiles]

\* The configuration load_config creates when there is no file.
DefaultSyncConfig == SyncConfig(None, {})

SyncConfigs ==
    {DefaultSyncConfig, SyncConfig("LocalFolder", {}),
     SyncConfig("LocalFolder", {Profile("LocalFolder", FALSE, 2)}),
     SyncConfig("LocalFolder", {Profile("P1", TRUE, 2)}),
     SyncConfig("P1", {Profile("P1", TRUE, 2)})}
    \cup {SyncConfig("LocalFolder", {Profile("LocalFolder", TRUE, r)}) : r \in 0 .. 2}

\* str.lower on the backend names in use.
Lower(name) ==
    CASE name = "None" -> "none"
      [] name = "LocalFolder" -> "localfolder"
      [] name = "P1" -> "p1"
      [] OTHER -> name

\* CloudSync._get_provider: a provider exists for one backend name only.
HasProvider(cfg) == Lower(cfg.backend) = "localfolder"

\* CloudSync.sync calls provider.sync() without arguments.
force_upload == FALSE

\* A variant that takes any profile of the list.
ActiveProfiles_any(cfg) == cfg.profiles

\* next((p for p in profiles if p.get('name') == backend_name), None)
ActiveProfiles(cfg) == {p \in cfg.profiles : p.name = cfg.backend}

Pad2(n) == IF n < 10 THEN "0" \o ToString(n) ELSE ToString(n)

\* strftime("%Y%m%d_%H%M%S"): the day, then hour, minute and second.
TimestampStr(t) ==
    ToString(t \div SecondsPerDay) \o "_" \o Pad2((t % SecondsPerDay) \div 3600)
        \o Pad2((t % 3600) \div 60) \o Pad2(t % 60)

\* unique_filename
SnapshotName(t) == "clipboard_sync_" \o TimestampStr(t) \o ".zip"

\* A file holding an archive: the invocation that built it (by), whether the
\* archive was closed (complete), whether another writer had the file open
\* while it was written (torn), and the pages of its database member (db).
Archive(by, complete, torn, db) ==
    [by |-> by, complete |-> complete, torn |-> torn, db |-> db]

Missing == Archive(0, FALSE, FALSE, Pages({}, {}))

\* shutil.copy(archive_path, destination_file)
CopyInto(dir, name, archive, t) ==
    {f \in dir : f.name # name}
        \cup {[name |-> name, mtime |-> t, archive |-> archive]}

\* _apply_retention_policy: the directories that deleting the oldest excess
\* snapshots can leave (files of equal mtime are sorted in listdir order).
Retained(dir, count) ==
    IF count = 0 \/ Cardinality(dir) <= count THEN {dir}
    ELSE {kept \in SUBSET dir :
            /\ Cardinality(kept) = count
            /\ \A k \in kept, d \in dir \ kept : d.mtime <= k.mtime}

\* The call passes RetentionCallArgs arguments to a method that takes
\* RetentionParams besides self: a TypeError when they differ.
RetentionCallRaises == RetentionCallArgs # RetentionParams

IdleThread == [pc |-> "idle", inv |-> 0, dest |-> "", retention_count |-> 0]

Signal(inv, ok) == [inv |-> inv, ok |-> ok]

Invocation(at, dest, provider, valid, retention) ==
    [at |-> at, dest |-> dest, provider |-> provider, valid |-> valid,
     retention |-> retention]

----------------------------------------------------------------------------
\* A clear_history call: where it is (pc), its local image_paths_to_delete,
\* and the rows its DELETE removed (history).
Clearing(pc, image_paths_to_delete, deleted) ==
    [pc |-> pc, image_paths_to_delete |-> image_paths_to_delete, deleted |-> deleted]

NotClearing == Clearing("idle", {}, {})

Init ==
    /\ now = 0
    /\ ms_token = 0
    /\ rows = {}
    /\ files = {}
    /\ clip_text = ""
    /\ clip_image = NullImage
    /\ last_text = clip_text
    /\ last_image_hash = GetQImageHash(clip_image)
    /\ ignore_next_change = FALSE
    /\ log_images = TRUE
    /\ retention_days \in RetentionChoices
    /\ clip_src = Src("none", TRUE, FALSE)
    /\ last = Idle
    /\ sync_config \in SyncConfigs
    /\ sync_thread = [t \in Threads |-> IdleThread]
    /\ temp_zip = Missing
    /\ cleanup_pending = FALSE
    /\ sync_dir = {}
    /\ last_sync_timestamp = -1
    /\ sync_complete = <<>>
    /\ sync_log = <<>>
    /\ listing = NoListing
    /\ db_table = TRUE
    /\ db_file = Pages({}, {})
    /\ backup = NoBackup
    /\ monitor_thread = "none"
    /\ stopping = "unset"
    /\ clearing = NotClearing
    /\ current_page = 1
    /\ total_pages = 1
    /\ search_text = ""

----------------------------------------------------------------------------
(* Guards that keep the model finite. *)
Fits(rs) == \A r \in rs : r.id <= MaxId
MayCapture == ms_token < MaxCaptures
MayWait == now % SecondsPerDay < MaxSecs
MayTick == now % SecondsPerDay < MaxTicks

----------------------------------------------------------------------------
(* class AppGUI: the paged list view of ui.py *)

\* "math.ceil(total_items / self.items_per_page) or 1"
TotalPages(total_items) ==
    IF PageCount(total_items, items_per_page) = 0
    THEN 1
    ELSE PageCount(total_items, items_per_page)

\* populate_all_lists: total_pages is computed from the count; the rows of
\* page current_page are then queried and shown.  (The loop that shows them
\* assigns no attribute; an exception in it leaves total_pages as computed.)
populate_all_lists(rs, search) ==
    total_pages' = TotalPages(get_total_entry_count(rs, search))

\* refresh_list, as the handlers of main.py call it on the table they leave.
refresh_list(rs) ==
    /\ populate_all_lists(rs, search_text)
    /\ UNCHANGED <<current_page, search_text>>

----------------------------------------------------------------------------
(* class ClipboardApp: the handlers of main.py *)

\* _on_new_entry, the slot of ClipboardMonitor.new_entry.
on_new_entry(rs, ev, t, logimg) ==
    IF ~logimg /\ ev.type = "image" THEN rs ELSE add_entry(rs, ev.content, ev.type, t)

RECURSIVE Deliver(_, _, _, _)
Deliver(rs, events, t, logimg) ==
    IF events = <<>> THEN rs
    ELSE Deliver(on_new_entry(rs, Head(events), t, logimg), Tail(events), t, logimg)

\* copy_item_to_clipboard: the clipboard and the monitor attribute after it.
copy_item_to_clipboard(rs, fs, id) ==
    IF ~(\E r \in rs : r.id = id)
    THEN UNCHANGED <<clip_text, clip_image, ignore_next_change, clip_src>>
    ELSE LET r == CHOOSE x \in rs : x.id = id IN
         /\ ignore_next_change' = TRUE
         /\ IF r.type = "text"
            THEN /\ clip_text' = r.content /\ clip_image' = NullImage
                 /\ clip_src' = Src("app", FALSE, FALSE)
            ELSE LET q_image == LoadImage(fs, r.content) IN
                 IF q_image # NullImage
                 THEN /\ clip_image' = q_image /\ clip_text' = ""
                      /\ clip_src' = Src("app", FALSE, FALSE)
                 ELSE UNCHANGED <<clip_text, clip_image, clip_src>>

\* "SELECT id FROM clipboard ORDER BY id DESC LIMIT 1"; 0 when the table is empty.
LatestId(rs) == IF rs = {} THEN 0 ELSE MaxOf({r.id : r \in rs})

CopyItemToClipboard(id) ==
    /\ \E r \in rows : r.id = id
    /\ copy_item_to_clipboard(rows, files, id)
    /\ last' = Idle
    /\ UNCHANGED <<now, ms_token, rows, files, last_text, last_image_hash,
                   log_images, retention_days>>
    /\ UNCHANGED pageVars
    /\ UNCHANGED outsideApp

CopyAndLogText(text) ==
    /\ rows' = add_entry(rows, text, "text", now)
    /\ Fits(rows')
    /\ copy_item_to_clipboard(rows', files, LatestId(rows'))
    /\ last' = Did("copy_and_log_text", text,
                   IF RecentDuplicate(rows, text, "text", now) THEN "duplicate" ELSE "fresh",
                   Cardinality(rows') - Cardinality(rows), <<>>)
    /\ UNCHANGED <<now, ms_token, files, last_text, last_image_hash,
                   log_images, retention_days>>
    /\ refresh_list(rows')
    /\ UNCHANGED outsideApp

AddNewSnippet(text) ==
    /\ rows' = add_manual_snippet(rows, text, now)
    /\ Fits(rows')
    /\ last' = Idle
    /\ UNCHANGED <<clip_src, now, ms_token, files, clip_text, clip_image, last_text,
                   last_image_hash, ignore_next_change, log_images, retention_days>>
    /\ refresh_list(rows')
    /\ UNCHANGED outsideApp

PinEntry(id) ==
    /\ rows' = toggle_pin(rows, id)
    /\ last' = IF toggle_pin_raises(rows, id)
               THEN Did("pin_entry", ToString(id), "TypeError", 0, <<>>)
               ELSE Idle
    /\ UNCHANGED <<clip_src, now, ms_token, files, clip_text, clip_image, last_text,
                   last_image_hash, ignore_next_change, log_images, retention_days>>
    /\ IF toggle_pin_raises(rows, id) THEN UNCHANGED pageVars ELSE refresh_list(rows')
    /\ UNCHANGED outsideApp

SetAsSnippet(id) ==
    /\ \E r \in rows : r.id = id
    /\ rows' = set_as_snippet(rows, id)
    /\ last' = Idle
    /\ UNCHANGED <<clip_src, now, ms_token, files, clip_text, clip_image, last_text,
                   last_image_hash, ignore_next_change, log_images, retention_days>>
    /\ refresh_list(rows')
    /\ UNCHANGED outsideApp

RemoveFromSnippet(id) ==
    /\ \E r \in rows : r.id = id
    /\ rows' = remove_from_snippet(rows, id)
    /\ last' = Idle
    /\ UNCHANGED <<clip_src, now, ms_token, files, clip_text, clip_image, last_text,
                   last_image_hash, ignore_next_change, log_images, retention_days>>
    /\ refresh_list(rows')
    /\ UNCHANGED outsideApp

\* delete_entry of main.py: unlink the picture of an image row, then delete the row.
\* A variant that forgets to select by id.
DeletedImagePaths_any_id(rs, id) == {r.content : r \in {x \in rs : x.type = "image"}}

DeletedImagePaths(rs, id) == {r.content : r \in {x \in rs : x.id = id /\ x.type = "image"}}

DeleteEntry(id) ==
    /\ \E r \in rows : r.id = id
    /\ files' = Unlink(files, DeletedImagePaths(rows, id))
    /\ rows' = delete_entry(rows, id)
    /\ last' = Did("delete_entry", (CHOOSE r \in rows : r.id = id).type, "", 1, <<>>)
    /\ UNCHANGED <<clip_src, now, ms_token, clip_text, clip_image, last_text,
                   last_image_hash, ignore_next_change, log_images, retention_days>>
    /\ refresh_list(rows')
    /\ UNCHANGED outsideApp

\* clear_history of main.py, which is Database.clear_history.
ClearHistory ==
    /\ rows' = ClearedRows(rows)
    /\ files' = Unlink(files, ClearedImagePaths(rows))
    /\ last' = Did("clear_history", "",
                   IF ClearedImagePaths(rows) \cap Paths(files) # {} THEN "unlinked" ELSE "",
                   Cardinality(rows) - Cardinality(rows'), <<>>)
    /\ UNCHANGED <<clip_src, now, ms_token, clip_text, clip_image, last_text,
                   last_image_hash, ignore_next_change, log_images, retention_days>>
    /\ refresh_list(rows')
    /\ UNCHANGED outsideApp

\* Database.clear_history statement by statement, for callers on other
\* threads: the connection is shared (check_same_thread=False) and nothing
\* is held between the SELECT, the DELETE and the os.remove loop.
ClearSelect ==
    /\ clearing.pc \in {"idle", "returned"}
    /\ clearing' = Clearing("selected", ClearedImagePaths(rows), {})
    /\ last' = Idle
    /\ UNCHANGED <<clip_src, now, ms_token, rows, files, clip_text, clip_image,
                   last_text, last_image_hash, ignore_next_change, log_images,
                   retention_days>>
    /\ UNCHANGED <<syncVars, viewVars, backupVars, monitorVars, pageVars>>

ClearDelete ==
    /\ clearing.pc = "selected"
    /\ rows' = ClearedRows(rows)
    /\ clearing' = Clearing("deleted", clearing.image_paths_to_delete, rows \ rows')
    /\ last' = Idle
    /\ UNCHANGED <<clip_src, now, ms_token, files, clip_text, clip_image,
                   last_text, last_image_hash, ignore_next_change, log_images,
                   retention_days>>
    /\ UNCHANGED <<syncVars, viewVars, backupVars, monitorVars, pageVars>>

ClearUnlink ==
    /\ clearing.pc = "deleted"
    /\ files' = Unlink(files, clearing.image_paths_to_delete)
    /\ clearing' = [clearing EXCEPT !.pc = "returned"]
    /\ last' = Idle
    /\ UNCHANGED <<clip_src, now, ms_token, rows, clip_text, clip_image,
                   last_text, last_image_hash, ignore_next_change, log_images,
                   retention_days>>
    /\ UNCHANGED <<syncVars, viewVars, backupVars, monitorVars, pageVars>>

\* save_config, whose reload_config runs Database.apply_retention_policy.
SaveConfig(days, logimg) ==
    /\ retention_days' = days
    /\ log_images' = logimg
    /\ rows' = apply_retention_policy(rows, days, now)
    /\ last' = Did("save_config", "",
                   IF last.op = "save_config" /\ retention_days = days THEN "again" ELSE "",
                   Cardinality(rows) - Cardinality(rows'), <<>>)
    /\ UNCHANGED <<clip_src, now, ms_token, files, clip_text, clip_image, last_text,
                   last_image_hash, ignore_next_change>>
    /\ refresh_list(rows')
    /\ UNCHANGED outsideApp

\* take_fullscreen_screenshot writes the PNG; log_screenshot_from_editor then
\* commits it (the editor was accepted) or removes the file (it was cancelled).
LogScreenshot(picture, accepted) ==
    /\ MayCapture
    /\ ms_token' = ms_token + 1
    /\ LET image_path == ImagePath("ss_fullscreen_", ms_token')
           written == WriteFile(files, image_path, picture)
       IN IF accepted
          THEN /\ files' = written
               /\ rows' = add_entry(rows, image_path, "image", now)
               /\ Fits(rows')
               /\ copy_item_to_clipboard(rows', files', LatestId(rows'))
               /\ last' = Did("log_screenshot", image_path, "accepted",
                              Cardinality(rows') - Cardinality(rows), <<>>)
          ELSE /\ files' = Unlink(written, {image_path})
               /\ last' = Did("log_screenshot", image_path, "cancelled", 0, <<>>)
               /\ UNCHANGED <<rows, clip_text, clip_image, ignore_next_change, clip_src>>
    /\ UNCHANGED <<now, last_text, last_image_hash, log_images, retention_days>>
    /\ refresh_list(rows')
    /\ UNCHANGED outsideApp

\* The store answers: the connection is on a file that has the table.
Usable == db_table

\* export_full_backup.  fault is where an exception is raised: nowhere
\* ("none") or while the archive is written ("zip"), which leaves the old
\* archive or an unreadable file.
ExportFaults == {"none", "zip"}

ExportFullBackup(fault) ==
    /\ db_file' = wal_checkpoint(rows, db_file)
    /\ IF fault = "none"
       THEN backup' = Backup(TRUE, db_table, db_file', files, rows)
       ELSE backup' \in {backup, NoBackup}
    /\ last' = Did("export_full_backup", fault, "", 0, <<>>)
    /\ UNCHANGED <<now, ms_token, rows, files, clip_text, clip_image, last_text,
                   last_image_hash, ignore_next_change, log_images, retention_days,
                   clip_src, db_table>>
    /\ UNCHANGED <<syncVars, viewVars, monitorVars, clearVars, pageVars>>

\* restore_from_backup of the window: import_full_backup and, when it returns
\* True, restart_app, whose new process opens the database (connect and
\* create_table) and builds a new monitor from the clipboard.  fault is where
\* import_full_backup raises an exception after it closed the connection:
\* nowhere ("none"), removing the images directory ("rmtree"), removing the
\* database file ("remove_db"), opening the archive ("open_zip") or
\* extracting it ("extract", which leaves any part of the archive on disk).
\* On an exception re_init connects again: to the old file if it is still
\* there, else to a new empty file, which has no table.
ImportFaults == {"none", "rmtree", "remove_db", "open_zip", "extract"}

RestoreFromBackup(confirmed, fault) ==
    IF ~confirmed
    THEN /\ last' = Did("import_full_backup", "", "declined", 0, <<>>)
         /\ UNCHANGED <<now, ms_token, rows, files, clip_text, clip_image,
                        last_text, last_image_hash, ignore_next_change, log_images,
                        retention_days, clip_src>>
         /\ UNCHANGED <<syncVars, viewVars, backupVars, monitorVars, clearVars, pageVars>>
    ELSE /\ backup.made \/ fault \notin {"none", "extract"}
         /\ CASE fault = "none" ->
                   /\ rows' = (IF backup.table THEN RowsOf(backup.db) ELSE {})
                   /\ db_file' = backup.db
                   /\ db_table' = TRUE
                   /\ files' = backup.images
                   /\ last_text' = clip_text
                   /\ last_image_hash' = GetQImageHash(clip_image)
                   /\ ignore_next_change' = FALSE
                   /\ clip_src' = Src(clip_src.by, TRUE, FALSE)
                   /\ monitor_thread' = "none" /\ stopping' = "unset"
                   /\ current_page' = 1 /\ search_text' = ""
                   /\ populate_all_lists(rows', "")
                   /\ last' = Did("import_full_backup", fault, "True",
                                  Cardinality(rows' \ rows), <<>>)
              [] fault = "rmtree" ->
                   /\ files' \in SUBSET files
                   /\ last' = Did("import_full_backup", fault, "False", 0, <<>>)
                   /\ UNCHANGED <<rows, db_file, db_table, last_text, last_image_hash,
                                  ignore_next_change, clip_src, monitorVars, pageVars>>
              [] fault = "remove_db" ->
                   /\ files' = {}
                   /\ last' = Did("import_full_backup", fault, "False", 0, <<>>)
                   /\ UNCHANGED <<rows, db_file, db_table, last_text, last_image_hash,
                                  ignore_next_change, clip_src, monitorVars, pageVars>>
              [] fault = "open_zip" ->
                   /\ files' = {}
                   /\ rows' = {} /\ db_file' = Pages({}, {}) /\ db_table' = FALSE
                   /\ last' = Did("import_full_backup", fault, "False", 0, <<>>)
                   /\ UNCHANGED <<last_text, last_image_hash, ignore_next_change,
                                  clip_src, monitorVars, pageVars>>
              [] fault = "extract" ->
                   /\ \E got_db \in BOOLEAN :
                         /\ db_table' = (got_db /\ backup.table)
                         /\ rows' = (IF db_table' THEN RowsOf(backup.db) ELSE {})
                         /\ db_file' = (IF got_db THEN backup.db ELSE Pages({}, {}))
                   /\ files' \in SUBSET backup.images
                   /\ last' = Did("import_full_backup", fault, "False", 0, <<>>)
                   /\ UNCHANGED <<last_text, last_image_hash, ignore_next_change,
                                  clip_src, monitorVars, pageVars>>
         /\ UNCHANGED <<now, ms_token, clip_text, clip_image, log_images,
                        retention_days, backup>>
         /\ UNCHANGED <<syncVars, viewVars, clearVars>>

\* A caller that reads the whole table page by page: the count first, then
\* get_all_entries for page 1, 2, ... up to the last page the count gives.
ListEntries(per_page) ==
    LET count == get_total_entry_count(rows, "")
        last_page == PageCount(count, per_page)
    IN  /\ \E order \in [1 .. last_page -> Ordered(rows)] :
              listing' = Listing(per_page, count,
                                 [p \in 1 .. last_page |->
                                     Limit(order[p], per_page, (p - 1) * per_page)],
                                 rows)
        /\ UNCHANGED <<appVars, syncVars, backupVars, monitorVars, clearVars, pageVars>>

\* next_page, prev_page, on_search_changed and refresh_list of AppGUI.
NextPage ==
    /\ IF current_page < total_pages
       THEN /\ current_page' = current_page + 1
            /\ populate_all_lists(rows, search_text)
       ELSE UNCHANGED <<current_page, total_pages>>
    /\ last' = Idle
    /\ UNCHANGED <<clip_src, now, ms_token, rows, files, clip_text, clip_image, last_text,
                   last_image_hash, ignore_next_change, log_images, retention_days>>
    /\ UNCHANGED <<search_text, outsideApp>>

PrevPage ==
    /\ IF current_page > 1
       THEN /\ current_page' = current_page - 1
            /\ populate_all_lists(rows, search_text)
       ELSE UNCHANGED <<current_page, total_pages>>
    /\ last' = Idle
    /\ UNCHANGED <<clip_src, now, ms_token, rows, files, clip_text, clip_image, last_text,
                   last_image_hash, ignore_next_change, log_images, retention_days>>
    /\ UNCHANGED <<search_text, outsideApp>>

\* The slot of search_input.textChanged.
OnSearchChanged(text) ==
    /\ text # search_text
    /\ search_text' = text
    /\ current_page' = 1
    /\ populate_all_lists(rows, text)
    /\ last' = Idle
    /\ UNCHANGED <<clip_src, now, ms_token, rows, files, clip_text, clip_image, last_text,
                   last_image_hash, ignore_next_change, log_images, retention_days>>
    /\ UNCHANGED outsideApp

RefreshList ==
    /\ refresh_list(rows)
    /\ last' = Idle
    /\ UNCHANGED <<clip_src, now, ms_token, rows, files, clip_text, clip_image, last_text,
                   last_image_hash, ignore_next_change, log_images, retention_days>>
    /\ UNCHANGED outsideApp

----------------------------------------------------------------------------
(* ClipboardMonitor.check_clipboard, one sample of the poll loop, and the   *)
(* sleep of PollInterval that follows it.  Each new_entry event is handled *)
(* by _on_new_entry before the sample returns.  The monitor is taken as    *)
(* its signature declares it: it reads the configuration the application   *)
(* holds, and its new_entry signal is connected to _on_new_entry.          *)
(* fault is where an exception is raised in this sample: nowhere ("none"), *)
(* reading the image ("image_read", before any state is changed), saving   *)
(* the picture ("image_save", after the last-seen state was updated), or   *)
(* reading the text ("text_read").                                         *)
Faults == {"none", "image_read", "image_save", "text_read"}

\* The image branch found a picture that differs from the last one seen.
ImageChanged(fault) ==
    /\ log_images
    /\ fault # "image_read"
    /\ clip_image # NullImage
    /\ GetQImageHash(clip_image) # last_image_hash

\* The picture was saved and its new_entry event emitted.
ImageEmitted(fault) == ImageChanged(fault) /\ fault # "image_save"

\* A variant that never sets the flag.
ImageProcessed_never_set(fault) == FALSE

\* image_processed, set right after the image event is emitted.
ImageProcessed(fault) == ImageEmitted(fault)

\* _last_text as the text branch finds it.
TextSeen(fault) == IF ImageChanged(fault) THEN "" ELSE last_text

\* A variant that does not compare the text with the last one seen.
TextChanged_uncompared(fault) ==
    /\ ~ImageProcessed(fault)
    /\ fault # "text_read"
    /\ clip_text # ""

\* The text branch runs and finds a text that differs from the last one seen.
TextChanged(fault) ==
    /\ ~ImageProcessed(fault)
    /\ fault # "text_read"
    /\ clip_text # ""
    /\ clip_text # TextSeen(fault)

\* The new_entry events of one sample, in the order they are emitted.
Emitted(fault, path) ==
    (IF ImageEmitted(fault) THEN <<Event(path, "image")>> ELSE <<>>)
    \o (IF TextChanged(fault) THEN <<Event(clip_text, "text")>> ELSE <<>>)

\* What the clipboard shows that the detector has not seen (for the history).
Exposed ==
    LET newImage == clip_image # NullImage /\ GetQImageHash(clip_image) # last_image_hash
        newText == clip_text # "" /\ clip_text # last_text
    IN IF newImage /\ newText THEN "both"
       ELSE IF newImage THEN "image"
       ELSE IF newText THEN "text"
       ELSE "neither"

CheckClipboard(fault) ==
    /\ MayTick
    /\ ImageEmitted(fault) => MayCapture
    /\ LET token == ms_token + 1
           path == ImagePath("img_", token)
           events == Emitted(fault, path)
       IN /\ ms_token' = IF ImageEmitted(fault) THEN token ELSE ms_token
          /\ files' = IF ImageEmitted(fault)
                       THEN WriteFile(files, path, clip_image)
                       ELSE files
          /\ last_image_hash' =
                IF TextChanged(fault) THEN None
                ELSE IF ImageChanged(fault) THEN GetQImageHash(clip_image)
                ELSE last_image_hash
          /\ last_text' = IF TextChanged(fault) THEN clip_text ELSE TextSeen(fault)
          /\ rows' = Deliver(rows, events, now, log_images)
          /\ Fits(rows')
          /\ last' = Did("check_clipboard", fault, Exposed,
                         Cardinality(rows') - Cardinality(rows), events)
    /\ clip_src' = [clip_src EXCEPT !.sampled = @ \/ fault = "none"]
    /\ now' = now + PollInterval
    /\ UNCHANGED <<clip_text, clip_image, ignore_next_change, log_images,
                   retention_days>>
    /\ IF Emitted(fault, "") # <<>>
       THEN refresh_list(rows')
       ELSE UNCHANGED pageVars
    /\ UNCHANGED outsideApp

----------------------------------------------------------------------------
(* ClipboardMonitor.start, _run and stop: the thread of the poll loop.     *)
(* monitor_thread is "none" before start, "running" while the thread is    *)
(* about to test the loop condition, "returned" once _run has returned and *)
(* "raised" once an exception has left _run.                               *)

\* A variant whose loop condition does not read the flag.
LoopTest_unconditional(flag) == "body"

\* while not self._stopping: what the test of the loop condition does.  The
\* constructor does not create the attribute; only stop() assigns it.
LoopTest(flag) ==
    CASE flag = "unset" -> "AttributeError"
      [] flag = "True" -> "return"
      [] OTHER -> "body"

\* start(): a new daemon thread on _run.
MonitorStart ==
    /\ monitor_thread = "none"
    /\ monitor_thread' = "running"
    /\ UNCHANGED <<stopping, appVars, syncVars, viewVars, backupVars, clearVars, pageVars>>

\* One round of _run: the loop condition, then the body.  The body calls
\* self._process_clipboard, which the class does not define, so it raises
\* AttributeError before any sample and before the sleep.
MonitorRun ==
    /\ monitor_thread = "running"
    /\ monitor_thread' = IF LoopTest(stopping) = "return" THEN "returned" ELSE "raised"
    /\ UNCHANGED <<stopping, appVars, syncVars, viewVars, backupVars, clearVars, pageVars>>

\* stop()
MonitorStop ==
    /\ stopping' = "True"
    /\ UNCHANGED <<monitor_thread, appVars, syncVars, viewVars, backupVars, clearVars, pageVars>>

----------------------------------------------------------------------------
(* The environment: the user copies something in another program; time passes. *)

UserCopy(text, picture) ==
    /\ text # "" \/ picture # NullImage
    /\ clip_text' = text
    /\ clip_image' = picture
    /\ clip_src' = IF <<text, picture>> = <<clip_text, clip_image>>
                   THEN Src("user", clip_src.sampled, clip_src.sampled)
                   ELSE Src("user", FALSE, FALSE)
    /\ last' = Idle
    /\ UNCHANGED <<now, ms_token, rows, files, last_text, last_image_hash,
                   ignore_next_change, log_images, retention_days>>
    /\ UNCHANGED pageVars
    /\ UNCHANGED outsideApp

Wait(seconds) ==
    /\ IF seconds = SecondsPerDay THEN now \div SecondsPerDay < MaxDays ELSE MayWait
    /\ now' = now + seconds
    /\ last' = Idle
    /\ UNCHANGED <<clip_src, ms_token, rows, files, clip_text, clip_image, last_text,
                   last_image_hash, ignore_next_change, log_images, retention_days>>
    /\ UNCHANGED pageVars
    /\ UNCHANGED outsideApp

----------------------------------------------------------------------------
(* One sync invocation on thread t: manual_sync, _trigger_auto_sync and the *)
(* startup sync each run CloudSync.sync on a thread of their own.           *)

Emit(inv, ok) == sync_complete' = Append(sync_complete, Signal(inv, ok))

\* CloudSync.sync and LocalFolderProvider.sync up to the destination name.
SyncStart(t) ==
    /\ sync_thread[t].pc = "idle"
    /\ Len(sync_log) < MaxSyncs
    /\ LET inv == Len(sync_log) + 1
           cfg == sync_config
           active == ActiveProfiles(cfg)
           valid == \E p \in active : p.path_ok
           abort(emit) ==
               /\ IF emit THEN Emit(inv, FALSE) ELSE UNCHANGED sync_complete
               /\ sync_log' = Append(sync_log,
                      Invocation(now, "", HasProvider(cfg), valid, 0))
               /\ UNCHANGED sync_thread
       IN IF ~HasProvider(cfg) THEN abort(FALSE)
          ELSE IF cfg.backend = None THEN abort(force_upload)
          ELSE IF active = {} THEN abort(TRUE)
          ELSE LET p == CHOOSE x \in active : TRUE IN
               IF ~p.path_ok THEN abort(TRUE)
               ELSE /\ sync_thread' = [sync_thread EXCEPT ![t] =
                          [pc |-> "open", inv |-> inv, dest |-> SnapshotName(now),
                           retention_count |-> p.retention]]
                    /\ sync_log' = Append(sync_log,
                          Invocation(now, SnapshotName(now), TRUE, TRUE, p.retention))
                    /\ UNCHANGED sync_complete
    /\ UNCHANGED <<sync_config, temp_zip, cleanup_pending, sync_dir, last_sync_timestamp>>
    /\ UNCHANGED outsideSync

\* _create_zip_archive: the checkpoint; ZipFile(temp_zip_path, 'w') creates
\* or truncates the file; zipf.write(DB_PATH) starts to read the database
\* file and has copied its first page, the table's.
SyncArchiveOpen(t) ==
    /\ sync_thread[t].pc = "open"
    /\ db_file' = wal_checkpoint(rows, db_file)
    /\ temp_zip' = Archive(sync_thread[t].inv, FALSE,
                           \E u \in Threads \ {t} : sync_thread[u].pc = "write",
                           Pages(db_file'.table, {}))
    /\ sync_thread' = [sync_thread EXCEPT ![t].pc = "write"]
    /\ UNCHANGED <<sync_config, cleanup_pending, sync_dir, last_sync_timestamp,
                   sync_complete, sync_log>>
    /\ UNCHANGED <<appVars, viewVars, monitorVars, clearVars, pageVars, db_table, backup>>

\* _create_zip_archive: the rest of the database file is read as it is now,
\* the other entries are written and the archive is closed.
SyncArchiveClose(t) ==
    /\ sync_thread[t].pc = "write"
    /\ temp_zip' = IF temp_zip = Missing THEN Missing
                   ELSE IF temp_zip.by = sync_thread[t].inv /\ ~temp_zip.torn
                   THEN Archive(temp_zip.by, TRUE, FALSE,
                                Pages(temp_zip.db.table, db_file.index))
                   ELSE Archive(temp_zip.by, FALSE, TRUE, temp_zip.db)
    /\ sync_thread' = [sync_thread EXCEPT ![t].pc = "copy"]
    /\ UNCHANGED <<sync_config, cleanup_pending, sync_dir, last_sync_timestamp,
                   sync_complete, sync_log>>
    /\ UNCHANGED outsideSync

\* shutil.copy into the profile's directory; a missing archive raises, the
\* except clause emits the failure and the finally clause finds no file.
SyncCopy(t) ==
    /\ sync_thread[t].pc = "copy"
    /\ IF temp_zip = Missing
       THEN /\ Emit(sync_thread[t].inv, FALSE)
            /\ sync_thread' = [sync_thread EXCEPT ![t] = IdleThread]
            /\ UNCHANGED sync_dir
       ELSE /\ sync_dir' = CopyInto(sync_dir, sync_thread[t].dest, temp_zip, now)
            /\ sync_thread' = [sync_thread EXCEPT ![t].pc = "finish"]
            /\ UNCHANGED sync_complete
    /\ UNCHANGED <<sync_config, temp_zip, cleanup_pending, last_sync_timestamp, sync_log>>
    /\ UNCHANGED outsideSync

\* _save_last_sync_info, the retention call, the signal, the finally clause.
SyncFinish(t) ==
    /\ sync_thread[t].pc = "finish"
    /\ last_sync_timestamp' = now
    /\ IF RetentionCallRaises
       THEN /\ Emit(sync_thread[t].inv, FALSE)
            /\ UNCHANGED sync_dir
       ELSE /\ Emit(sync_thread[t].inv, TRUE)
            /\ sync_dir' \in Retained(sync_dir, backup_retention_count)
    /\ cleanup_pending' = (cleanup_pending \/ temp_zip # Missing)
    /\ sync_thread' = [sync_thread EXCEPT ![t] = IdleThread]
    /\ UNCHANGED <<sync_config, temp_zip, sync_log>>
    /\ UNCHANGED outsideSync

\* do_cleanup of _cleanup_temp_files, when its timer fires.
CleanupTemp ==
    /\ cleanup_pending
    /\ cleanup_pending' = FALSE
    /\ temp_zip' = Missing
    /\ UNCHANGED <<sync_config, sync_thread, sync_dir, last_sync_timestamp,
                   sync_complete, sync_log>>
    /\ UNCHANGED outsideSync

----------------------------------------------------------------------------
Ids == 1 .. MaxId

(* The program is checked in parts: each part is a set of handlers that    *)
(* run against the same state, with the environment steps they depend on.  *)

(* Inserts into the store, seconds apart. *)
DedupNext ==
    \/ \E text \in Texts : CopyAndLogText(text)
    \/ \E text \in Texts : AddNewSnippet(text)
    \/ \E r \in rows : PinEntry(r.id)
    \/ \E id \in Ids : DeleteEntry(id)
    \/ ClearHistory
    \/ Wait(1)

(* The history view's handlers on text rows, snippets and screenshots. *)
ClearNext ==
    \/ \E text \in Texts : CopyAndLogText(text)
    \/ \E text \in Texts : AddNewSnippet(text)
    \/ \E r \in rows : PinEntry(r.id)
    \/ \E id \in Ids : SetAsSnippet(id)
    \/ \E id \in Ids : RemoveFromSnippet(id)
    \/ \E id \in Ids : DeleteEntry(id)
    \/ ClearHistory
    \/ \E picture \in Pictures, accepted \in BOOLEAN : LogScreenshot(picture, accepted)

(* The settings dialog changes retention_days, seconds and days apart. *)
RetentionNext ==
    \/ \E text \in Texts : CopyAndLogText(text)
    \/ \E r \in rows : PinEntry(r.id)
    \/ \E id \in Ids : SetAsSnippet(id)
    \/ \E days \in RetentionChoices : SaveConfig(days, log_images)
    \/ \E seconds \in {1, SecondsPerDay} : Wait(seconds)

(* The detector: the user and the application write the clipboard, the     *)
(* poll loop samples it (its sleep advances the seconds), the settings      *)
(* dialog switches image logging.                                          *)
CaptureNext ==
    \/ \E text \in Texts \cup {""}, picture \in Pictures \cup {NullImage} :
          UserCopy(text, picture)
    \/ \E fault \in Faults : CheckClipboard(fault)
    \/ \E id \in Ids : CopyItemToClipboard(id)
    \/ \E logimg \in BOOLEAN : SaveConfig(retention_days, logimg)
    \/ Wait(SecondsPerDay)

(* Image rows and their files: pictures captured by the detector or by a   *)
(* screenshot, and every handler that deletes rows.                        *)
ImageNext ==
    \/ \E picture \in Pictures : UserCopy("", picture)
    \/ \E fault \in Faults : CheckClipboard(fault)
    \/ \E id \in Ids : CopyItemToClipboard(id)
    \/ \E id \in Ids : DeleteEntry(id)
    \/ ClearHistory
    \/ \E days \in RetentionChoices : SaveConfig(days, log_images)
    \/ \E picture \in Pictures, accepted \in BOOLEAN : LogScreenshot(picture, accepted)
    \/ Wait(SecondsPerDay)

(* The paged queries: rows are inserted and deleted, the table is listed. *)
PageNext ==
    \/ \E text \in Texts : CopyAndLogText(text)
    \/ \E text \in Texts : AddNewSnippet(text)
    \/ \E id \in Ids : DeleteEntry(id)
    \/ \E per_page \in 1 .. MaxPerPage : ListEntries(per_page)
    \/ Wait(1)

(* Backup and restore: texts and screenshots are stored, a backup is       *)
(* exported and imported; the store's handlers run while the store         *)
(* answers.  The file system works: an import fails only on a file   *)
(* that is no archive.                                                     *)
BackupNext ==
    \/ \E text \in Texts : Usable /\ CopyAndLogText(text)
    \/ \E picture \in Pictures : Usable /\ LogScreenshot(picture, TRUE)
    \/ \E fault \in ExportFaults : ExportFullBackup(fault)
    \/ \E confirmed \in BOOLEAN, fault \in {"none", "open_zip"} :
          RestoreFromBackup(confirmed, fault)

(* The same with an import that can fail at every step. *)
RecoveryNext ==
    \/ \E text \in Texts : Usable /\ CopyAndLogText(text)
    \/ \E picture \in Pictures : Usable /\ LogScreenshot(picture, TRUE)
    \/ \E fault \in ExportFaults : ExportFullBackup(fault)
    \/ \E confirmed \in BOOLEAN, fault \in ImportFaults :
          RestoreFromBackup(confirmed, fault)

(* The folder sync: syncs run on two threads, seconds pass. *)
SyncNext ==
    \/ \E t \in Threads : SyncStart(t)
    \/ \E t \in Threads : SyncArchiveOpen(t)
    \/ \E t \in Threads : SyncArchiveClose(t)
    \/ \E t \in Threads : SyncCopy(t)
    \/ \E t \in Threads : SyncFinish(t)
    \/ CleanupTemp
    \/ Wait(1)

(* Pinning by id, of rows that exist and of rows that do not. *)
PinNext ==
    \/ \E text \in Texts : CopyAndLogText(text)
    \/ \E text \in Texts : AddNewSnippet(text)
    \/ \E id \in Ids : PinEntry(id)
    \/ \E id \in Ids : DeleteEntry(id)
    \/ Wait(1)

(* The thread of the poll loop, while the user copies and seconds pass. *)
MonitorNext ==
    \/ MonitorStart
    \/ MonitorRun
    \/ MonitorStop
    \/ \E text \in Texts \cup {""}, picture \in Pictures \cup {NullImage} :
          UserCopy(text, picture)
    \/ Wait(1)

(* A sync builds its archive on a thread while the main thread stores     *)
(* texts and exports a backup.                                             *)
ArchiveNext ==
    \/ SyncStart("t1")
    \/ SyncArchiveOpen("t1")
    \/ SyncArchiveClose("t1")
    \/ SyncCopy("t1")
    \/ SyncFinish("t1")
    \/ CleanupTemp
    \/ \E text \in Texts : CopyAndLogText(text)
    \/ ExportFullBackup("none")

(* The folder sync with one invocation at a time. *)
SerialSyncNext ==
    \/ SyncStart("t1")
    \/ SyncArchiveOpen("t1")
    \/ SyncArchiveClose("t1")
    \/ SyncCopy("t1")
    \/ SyncFinish("t1")
    \/ CleanupTemp
    \/ Wait(1)

(* clear_history on one thread, statement by statement, while another     *)
(* thread stores screenshots, pins rows and makes them snippets.           *)
ClearRaceNext ==
    \/ ClearSelect
    \/ ClearDelete
    \/ ClearUnlink
    \/ \E picture \in Pictures : LogScreenshot(picture, TRUE)
    \/ \E r \in rows : PinEntry(r.id)
    \/ \E id \in Ids : SetAsSnippet(id)

(* The settings dialog is saved again and again over texts, some pinned. *)
RepeatNext ==
    \/ \E text \in Texts : CopyAndLogText(text)
    \/ \E r \in rows : PinEntry(r.id)
    \/ \E days \in RetentionChoices : SaveConfig(days, log_images)
    \/ Wait(1)
    \/ Wait(SecondsPerDay)

(* The list view: the user pages and searches while rows come and go. *)
ListViewNext ==
    \/ NextPage
    \/ PrevPage
    \/ \E text \in SearchTexts : OnSearchChanged(text)
    \/ RefreshList
    \/ \E text \in Texts : CopyAndLogText(text)
    \/ \E text \in Texts : AddNewSnippet(text)
    \/ \E id \in Ids : DeleteEntry(id)
    \/ ClearHistory
    \/ Wait(1)

Next ==
    \/ RepeatNext
    \/ ListViewNext
    \/ ClearRaceNext
    \/ DedupNext \/ ClearNext \/ RetentionNext
    \/ CaptureNext \/ ImageNext
    \/ SyncNext
    \/ SerialSyncNext
    \/ ArchiveNext
    \/ MonitorNext
    \/ PinNext
    \/ PageNext
    \/ BackupNext
    \/ RecoveryNext

vars == <<appVars, syncVars, viewVars, backupVars, monitorVars, clearVars, pageVars>>

Spec == Init /\ [][Next]_vars

(* The store and the detector are checked with the sync left unconfigured,  *)
(* as load_config creates it on the first run.                             *)
Unconfigured == Init /\ sync_config = DefaultSyncConfig

DedupSpec == Unconfigured /\ [][DedupNext]_vars

ClearSpec == Unconfigured /\ [][ClearNext]_vars

RetentionSpec == Unconfigured /\ [][RetentionNext]_vars

CaptureSpec == Unconfigured /\ [][CaptureNext]_vars

ArchiveSpec == Init /\ [][ArchiveNext]_vars

SerialSyncSpec == Init /\ [][SerialSyncNext]_vars

PinSpec == Unconfigured /\ [][PinNext]_vars

MonitorSpec == Unconfigured /\ [][MonitorNext]_vars

\* A started thread is scheduled.
MonitorFairSpec == MonitorSpec /\ WF_vars(MonitorRun)

PageSpec == Unconfigured /\ [][PageNext]_vars

BackupSpec == Unconfigured /\ [][BackupNext]_vars

RecoverySpec == Unconfigured /\ [][RecoveryNext]_vars

ImageSpec == Unconfigured /\ [][ImageNext]_vars

ClearRaceSpec == Unconfigured /\ [][ClearRaceNext]_vars

RepeatSpec == Unconfigured /\ [][RepeatNext]_vars

ListViewSpec == Unconfigured /\ [][ListViewNext]_vars

SyncSpec == Init /\ [][SyncNext]_vars

----------------------------------------------------------------------------
(* Properties of the store (checked under DedupSpec, ClearSpec,            *)
(* RetentionSpec and ImageSpec).                                          *)

RowIds(rs) == {r.id : r \in rs}

Protected(r) == r.pinned = 1 \/ r.is_snippet = 1

SameText(c) == {r \in rows : r.content = c /\ r.type = "text"}

\* C1: add_entry(c, 'text') adds no row when a text row of content c is less
\* than DedupWindow seconds old, and adds a row (then the only one of content
\* c inside the window) when the window has elapsed for every such row.
C1_Dedup ==
    last.op = "copy_and_log_text" =>
        LET recent == {r \in SameText(last.arg) : now - r.timestamp < DedupWindow}
        IN /\ last.n \in {0, 1}
           /\ last.n = 0 => recent # {}
           /\ last.n = 1 => /\ Cardinality(recent) = 1
                            /\ \A r \in recent : r.timestamp = now /\ r.id = LatestId(rows)

\* A repeated add_entry was suppressed inside the window, after an earlier one
\* had added a second row once the window of the first had elapsed.
C1_Witness ==
    /\ last.op = "copy_and_log_text"
    /\ last.n = 0
    /\ \E r1, r2 \in SameText(last.arg) :
          /\ r1.is_snippet = 0 /\ r2.is_snippet = 0
          /\ r2.timestamp >= r1.timestamp + DedupWindow
          /\ now - r2.timestamp < DedupWindow

\* C5: clear_history keeps every pinned or snippet row, removes every row
\* that is neither, and unlinks the file of every image row it removed.
C5_ClearHistory ==
    [][last'.op = "clear_history" =>
          /\ \A r \in rows : Protected(r) => r \in rows'
          /\ \A r \in rows : ~Protected(r) => r.id \notin RowIds(rows')
          /\ rows' \subseteq rows
          /\ \A r \in rows : (~Protected(r) /\ r.type = "image")
                                  => r.content \notin Paths(files')]_vars

\* clear_history removed a row and unlinked a picture while a pinned row and a
\* snippet row stayed.
C5_Witness ==
    /\ last.op = "clear_history"
    /\ last.n >= 1
    /\ last.pre = "unlinked"
    /\ \E r \in rows : r.pinned = 1
    /\ \E r \in rows : r.is_snippet = 1

\* C6: apply_retention_policy with retention_days > 0 deletes exactly the
\* rows that are not pinned, not snippets and older than now - retention_days;
\* with retention_days = 0 it changes nothing.
C6_Retention ==
    [][last'.op = "save_config" =>
          LET cutoff == now - retention_days' * SecondsPerDay
              expired == {r \in rows : ~Protected(r) /\ r.timestamp < cutoff}
          IN IF retention_days' > 0 THEN rows' = rows \ expired ELSE rows' = rows]_vars

\* Retention pruned a row and kept a pinned row that is as old.
C6_Witness ==
    /\ last.op = "save_config"
    /\ retention_days > 0
    /\ last.n >= 1
    /\ \E r \in rows : r.pinned = 1 /\ r.is_snippet = 0
                        /\ r.timestamp < now - retention_days * SecondsPerDay

\* C7: whenever a step removes an image row, the file the row referenced is
\* removed in the same step.
C7_BlobFollowsRow ==
    [][\A r \in rows : (r.type = "image" /\ r.id \notin RowIds(rows'))
                           => r.content \notin Paths(files')]_vars

----------------------------------------------------------------------------
(* Properties of the detector (checked under CaptureSpec and ImageSpec). *)

\* The last step was a sample in which no exception was raised.
Sampled == last.op = "check_clipboard" /\ last.arg = "none"

\* C2: after the application wrote the clipboard through
\* copy_item_to_clipboard, no sample that finds that content emits an event.
C2_SelfWriteSuppressed == (last.op = "check_clipboard" /\ clip_src.by = "app") => last.events = <<>>

\* C3: a sample that finds both a new text and a new picture, with image
\* logging on, emits exactly one event, of type image.
C3_MutualExclusion ==
    (Sampled /\ last.pre = "both" /\ log_images) =>
        Len(last.events) = 1 /\ last.events[1].type = "image"

C3_Witness ==
    /\ Sampled /\ last.pre = "both" /\ log_images
    /\ clip_text # "" /\ clip_image # NullImage
    /\ \E r \in rows : r.type = "image" /\ r.timestamp = now - PollInterval

\* The user copied the text that the detector had already sampled once more,
\* and the detector has just sampled the clipboard again.
RecopySampled ==
    /\ Sampled
    /\ clip_src.by = "user" /\ clip_src.recopied
    /\ clip_text # "" /\ clip_image = NullImage

\* C4, as claimed: after the repeated copy, a sample taken 3 or more seconds
\* after the row of that text was stored adds a second row, and a sample
\* taken within 1 second adds none.
C4_RepeatedCopyAsClaimed ==
    RecopySampled =>
        LET same == SameText(clip_text)
            sampled_at == now - PollInterval
        IN /\ (\E r \in same : sampled_at - r.timestamp >= 3)
                => (\E r \in same : r.timestamp = sampled_at)
           /\ (same # {} /\ \A r \in same : sampled_at - r.timestamp <= 1)
                => Cardinality(same) = 1

\* C4, amended: the sample after a repeated copy of the same text emits no
\* event and adds no row, however long after the first capture it is taken.
C4_RepeatedCopy == RecopySampled => (last.events = <<>> /\ last.n = 0)

\* The text was captured once, copied again, and sampled 3 or more seconds
\* after its row was stored: still one row.
C4_Witness ==
    /\ RecopySampled
    /\ Cardinality(SameText(clip_text)) = 1
    /\ \E r \in SameText(clip_text) : (now - PollInterval) - r.timestamp >= 3

----------------------------------------------------------------------------
(* Properties of the folder sync (checked under SyncSpec). *)

\* No sync invocation is in progress.
Quiet == \A t \in Threads : sync_thread[t].pc = "idle"

Min(a, b) == IF a <= b THEN a ELSE b

\* The invocations made so far were made in different seconds.
DistinctSeconds ==
    \A i, j \in 1 .. Len(sync_log) : i # j => sync_log[i].at # sync_log[j].at

\* C9: once n sync invocations against a valid profile of retention count
\* r > 0 have finished, the directory holds exactly min(n, r) snapshots, the
\* ones created last.  Stated for the case that favours the claim: the
\* profile is the one the provider is created for, and the invocations ran
\* in different seconds.
C9_SnapshotRetention ==
    \A p \in ActiveProfiles(sync_config) :
        (/\ Quiet /\ HasProvider(sync_config) /\ DistinctSeconds
         /\ p.path_ok /\ p.retention > 0)
        => LET n == Len(sync_log)
               k == Min(n, p.retention)
           IN /\ Cardinality(sync_dir) = k
              /\ {f.name : f \in sync_dir} = {sync_log[i].dest : i \in (n - k + 1) .. n}

\* C10: the sync invocations that have written a snapshot wrote to pairwise
\* distinct file names.
C10_NamesDistinct ==
    Quiet => \A i, j \in 1 .. Len(sync_log) :
                 (i # j /\ sync_log[i].dest # "") => sync_log[i].dest # sync_log[j].dest

\* The configuration errors: no profile is selected, the selected name is
\* not in the profile list, or the selected profile's path is no directory.
ConfigError(cfg) ==
    \/ cfg.backend = None
    \/ ~(\E p \in cfg.profiles : p.name = cfg.backend)
    \/ \E p \in cfg.profiles : p.name = cfg.backend /\ ~p.path_ok

\* C14: while the configuration has an error, sync invocations create no
\* archive, write and delete no snapshot, and leave the last-sync marker
\* unwritten.
C14_NoIOOnConfigError ==
    ConfigError(sync_config) =>
        /\ temp_zip = Missing /\ ~cleanup_pending
        /\ sync_dir = {}
        /\ last_sync_timestamp = -1

\* A sync whose selected profile is not in the list, beside another
\* profile, was reported as failed.
C14_Witness ==
    /\ ConfigError(sync_config) /\ sync_config.profiles # {}
    /\ ActiveProfiles(sync_config) = {}
    /\ \E k \in 1 .. Len(sync_complete) : ~sync_complete[k].ok

\* C15: every sync invocation made while the configuration has an error
\* has emitted sync_complete(False, message).
C15_ConfigErrorReported ==
    ConfigError(sync_config) =>
        \A i \in 1 .. Len(sync_log) :
            \E k \in 1 .. Len(sync_complete) : sync_complete[k] = Signal(i, FALSE)

\* C16: a sync that has written its snapshot and saved the last-sync marker
\* ends by emitting sync_complete(True, message).
C16_RetentionBestEffort ==
    [][\A t \in Threads :
          (sync_thread[t].pc = "finish" /\ sync_thread'[t].pc = "idle")
          => sync_complete' = Append(sync_complete, Signal(sync_thread[t].inv, TRUE))]_vars

----------------------------------------------------------------------------
(* Properties of the poll loop (checked under MonitorSpec). *)

\* C17: no exception leaves the poll loop.
C17_NoExceptionLeavesLoop == monitor_thread # "raised"

----------------------------------------------------------------------------
\* C19: toggle_pin(id) on an id that no row has is a silent no-op: it
\* raises no error.  (That it changes no row then, and that it flips the
\* flag of the one row that has the id, is how toggle_pin is defined.)
C19_TogglePinSilent == last.op = "pin_entry" => last.pre # "TypeError"

----------------------------------------------------------------------------
\* C20: the database file in a finished archive is the store's committed
\* state at one point in time: its pages cover the same rows.
C20_ArchiveConsistent ==
    temp_zip.complete => temp_zip.db.table = temp_zip.db.index

----------------------------------------------------------------------------
RECURSIVE Flatten(_)
Flatten(pages) == IF pages = <<>> THEN <<>> ELSE Head(pages) \o Flatten(Tail(pages))

\* C11: after any listing of a table of N rows, the count is N and the pages
\* 1, 2, ... joined have N rows, in strictly descending timestamp order, no
\* row twice and every row of the table among them.
C11_PagesCoverTable ==
    listing # NoListing =>
        LET all == Flatten(listing.pages)
            N == Cardinality(listing.of)
        IN  /\ listing.count = N
            /\ Len(all) = N
            /\ \A i, j \in 1 .. Len(all) :
                   i < j => all[i] # all[j] /\ all[i].timestamp > all[j].timestamp
            /\ {all[i] : i \in 1 .. Len(all)} = listing.of

----------------------------------------------------------------------------
(* Properties of backup and restore (checked under BackupSpec). *)

\* The last step imported the archive and returned True.
Imported == last.op = "import_full_backup" /\ last.pre = "True"

\* C12: after an import of an archive that export_full_backup wrote, the
\* store has the rows the source had when the archive was written, and every
\* image row's file exists.
C12_RoundTrip ==
    Imported =>
        /\ rows = backup.of
        /\ \A r \in rows : r.type = "image" => r.content \in Paths(files)


\* An archive of a text row and an image row was imported into a store
\* that had lost them.
C12_Witness ==
    /\ Imported
    /\ \E r \in rows : r.type = "image"
    /\ \E r \in rows : r.type = "text"
    /\ last.n = 2


\* C13: when import_full_backup has failed after it closed the connection
\* and returned False, the store answers.
C13_UsableAfterFailure ==
    (last.op = "import_full_backup" /\ last.pre = "False") => Usable

----------------------------------------------------------------------------
\* C21: ids only grow.  Against a listing taken earlier: a row that now has
\* the id of a listed row is that row (the id was not given to a later
\* insert), and every row inserted since has an id above all listed ids.
C21_IdsNeverReused ==
    \A new \in rows :
        IF \E old \in listing.of : old.id = new.id
        THEN \E old \in listing.of :
                /\ old.id = new.id
                /\ old.content = new.content /\ old.timestamp = new.timestamp
        ELSE \A old \in listing.of : new.id > old.id

----------------------------------------------------------------------------
\* C22: apply_retention_policy only deletes, and called again at once with
\* the same retention_days it changes nothing.
C22_RetentionIdempotent ==
    [][last'.op = "save_config" =>
          /\ rows' \subseteq rows
          /\ last'.pre = "again" => rows' = rows]_vars

\* The policy ran twice in a row; it has pruned row 1, and a pinned row as
\* old is still there.
C22_Witness ==
    /\ last.op = "save_config" /\ last.pre = "again"
    /\ retention_days > 0
    /\ \E r \in rows : /\ r.id = 2 /\ r.pinned = 1
                        /\ r.timestamp < now - retention_days * SecondsPerDay
    /\ Cardinality(rows) = 1

\* C23: add_manual_snippet does not de-duplicate.  Every add_new_snippet adds
\* exactly one row, a text snippet of the given content stamped now, and keeps
\* every row there was, also when a row of the same content is inside the
\* de-duplication window.
C23_SnippetBypassesDedup ==
    [][\A text \in Texts :
          AddNewSnippet(text) =>
              /\ rows \subseteq rows'
              /\ Cardinality(rows') = Cardinality(rows) + 1
              /\ \A r \in rows' \ rows :
                    /\ r.content = text /\ r.type = "text"
                    /\ r.is_snippet = 1 /\ r.timestamp = now]_vars

\* Two snippets of one content added in the same second.
C23_Witness ==
    \E r1, r2 \in rows :
        /\ r1.id # r2.id
        /\ r1.content = r2.content
        /\ r1.is_snippet = 1 /\ r2.is_snippet = 1
        /\ r1.timestamp = r2.timestamp

\* C24: a copy put both a text and a picture on the clipboard, a sample has
\* emitted the image event for it, and the clipboard has not changed: the
\* next sample emits no event.
C24_NoDoubleCapture ==
    [][(/\ Sampled /\ last.pre = "both" /\ log_images
        /\ Len(last.events) = 1 /\ last.events[1].type = "image"
        /\ clip_src.by = "user"
        /\ last'.op = "check_clipboard")
       => last'.events = <<>>]_vars

\* C25: a sample whose image branch raises emits no image event and leaves
\* the last-seen text and the last-seen image hash as they were for the text
\* branch, so it emits nothing for a text the detector had already seen.
C25_ImageFailureNoEffect ==
    [][(last'.op = "check_clipboard" /\ last'.arg \in {"image_read", "image_save"})
       => /\ \A i \in 1 .. Len(last'.events) : last'.events[i].type # "image"
          /\ clip_text = last_text =>
                /\ last'.events = <<>>
                /\ last_text' = last_text
                /\ last_image_hash' = last_image_hash]_vars

\* C26: copy_and_log_text(t) leaves the text t on the clipboard, also when
\* add_entry suppresses the insert as a duplicate.
C26_CopyLeavesText == last.op = "copy_and_log_text" => clip_text = last.arg

\* C27: when a clear_history call returns, the files it unlinked are the
\* files of the image rows it deleted: every image row's content is an existing
\* file, and no image row it deleted has its file left.
C27_ClearAtomic ==
    clearing.pc = "returned" =>
        /\ clearing.image_paths_to_delete =
              {r.content : r \in {x \in clearing.deleted : x.type = "image"}}
        /\ \A r \in rows : r.type = "image" => r.content \in Paths(files)
        /\ \A r \in clearing.deleted : r.type = "image" => r.content \notin Paths(files)

----------------------------------------------------------------------------
\* C28: the archive a sync invocation copies into the profile's directory is
\* complete and was built by that invocation.
C28_CopiesOwnArchive ==
    [][\A t \in Threads :
          (sync_thread[t].pc = "copy" /\ sync_thread'[t].pc = "finish")
          => /\ temp_zip.complete /\ ~temp_zip.torn
             /\ temp_zip.by = sync_thread[t].inv]_vars

\* C29: a sync invocation that ends by emitting sync_complete(False, message)
\* leaves the last-sync marker as it was.
C29_MarkerOnlyOnSuccess ==
    [][(/\ Len(sync_complete') = Len(sync_complete) + 1
        /\ ~sync_complete'[Len(sync_complete')].ok)
       => last_sync_timestamp' = last_sync_timestamp]_vars

----------------------------------------------------------------------------
\* C30: the page shown is a page of the list: 1 <= current_page <= total_pages.
C30_PageInRange == 1 <= current_page /\ current_page <= total_pages

====
